---- MODULE Spec2Model ----
(***************************************************************************)
(* A model of hmc/systems.py: the Hamiltonian system classes, their        *)
(* construction (_autograd_fallback), the per-state memoisation of their   *)
(* methods (the cache_in_state / multi_cache_in_state decorators), the     *)
(* tangent-space projection of the constrained systems and the            *)
(* divided-difference matrix of the SoftAbs system.                        *)
(*                                                                         *)
(* Three specifications share the module:                                  *)
(*   Spec        construction and memoised method calls on one State;      *)
(*               values are symbolic: a quantity name with the position    *)
(*               and momentum values it was computed from.                 *)
(*   SpecNum     the Euclidean-metric systems in exact rational            *)
(*               arithmetic (kinetic energy, projection, h).               *)
(*   SpecSoftAbs the j_mtx of SoftAbsRiemannianMetricSystem.               *)
(***************************************************************************)
EXTENDS Integers, Sequences, FiniteSets, TLC

VARIABLES imports, sys, st, obs, num, sa

vars == <<imports, sys, st, obs, num, sa>>

(***************************************************************************)
(* Bounds.                                                                 *)
(***************************************************************************)
MaxSteps == 3

(***************************************************************************)
(* Positions and momenta of the symbolic specification are labels: a new   *)
(* State holds the vectors labelled 0, a reassignment installs either      *)
(* label.                                                                  *)
(***************************************************************************)
Vals == {0, 1}

(***************************************************************************)
(* Exact arithmetic for the numeric specifications.  A number is a         *)
(* reduced fraction <<n, d>> with d > 0; the floating-point exceptions of  *)
(* a division by zero are kept: <<1, 0>> and <<-1, 0>> are the infinities  *)
(* and <<0, 0>> is NaN.                                                    *)
(***************************************************************************)
Abs(n) == IF n < 0 THEN -n ELSE n

Sgn(n) == IF n < 0 THEN -1 ELSE IF n > 0 THEN 1 ELSE 0

RECURSIVE GCD(_, _)
GCD(a, b) == IF b = 0 THEN a ELSE GCD(b, a % b)

NaN == <<0, 0>>

Frac(n, d) ==
    IF d = 0 THEN <<Sgn(n), 0>>
    ELSE LET g == GCD(Abs(n), Abs(d))
         IN  <<Sgn(d) * (n \div g), Abs(d) \div g>>

R(k) == <<k, 1>>

IsNaN(x) == x = NaN

IsInf(x) == x[2] = 0 /\ x[1] # 0

RNeg(x) == <<-x[1], x[2]>>

RAdd(x, y) ==
    IF IsNaN(x) \/ IsNaN(y) THEN NaN
    ELSE IF IsInf(x) THEN (IF IsInf(y) /\ y # x THEN NaN ELSE x)
    ELSE IF IsInf(y) THEN y
    ELSE Frac(x[1] * y[2] + y[1] * x[2], x[2] * y[2])

RSub(x, y) == RAdd(x, RNeg(y))

RMul(x, y) ==
    IF IsNaN(x) \/ IsNaN(y) THEN NaN
    ELSE IF IsInf(x) \/ IsInf(y) THEN <<Sgn(x[1]) * Sgn(y[1]), 0>>
    ELSE Frac(x[1] * y[1], x[2] * y[2])

RDiv(x, y) ==
    IF IsNaN(x) \/ IsNaN(y) THEN NaN
    ELSE IF IsInf(y) THEN (IF IsInf(x) THEN NaN ELSE R(0))
    ELSE IF IsInf(x) THEN <<x[1] * (IF y[1] < 0 THEN -1 ELSE 1), 0>>
    ELSE Frac(x[1] * y[2], x[2] * y[1])

RLess(x, y) == x[1] * y[2] < y[1] * x[2]

RPos(x) == x[1] > 0

RNonNeg(x) == x[1] >= 0 /\ ~IsNaN(x)

Half == Frac(1, 2)

RECURSIVE RSum(_)
RSum(seq) == IF Len(seq) = 0 THEN R(0)
             ELSE RAdd(seq[1], RSum(Tail(seq)))

(***************************************************************************)
(* Vectors are functions on Idx (the model's systems have two dimensions)  *)
(* and matrices are functions from row to vector; a constraint has one     *)
(* component (CIdx).                                                       *)
(***************************************************************************)
Idx == 1..2

CIdx == 1..1

Size(I) == Cardinality(I)

\* A vector or matrix as an array of evaluated entries (the same value).
AsArray(v) == v \o <<>>

Dot(I, u, v) == RSum([i \in 1..Size(I) |-> RMul(u[i], v[i])])

MatVec(I, K, A, v) == AsArray([i \in I |-> Dot(K, A[i], v)])

Transpose(I, K, A) == AsArray([k \in K |-> AsArray([i \in I |-> A[i][k]])])

MatMul(I, K, J, A, B) ==
    AsArray([i \in I |-> AsArray([j \in J |->
        RSum([k \in 1..Size(K) |-> RMul(A[i][k], B[k][j])])])])

VecSub(I, u, v) == AsArray([i \in I |-> RSub(u[i], v[i])])

(***************************************************************************)
(* scipy.linalg.cholesky and cho_solve.  The lower factor of a positive    *)
(* definite A is L * sqrt(D) with L unit lower triangular and D the        *)
(* positive pivots; the factor is kept as the pair (L, D), which is exact. *)
(* cholesky fails (LinAlgError) on the first pivot that is not positive.   *)
(***************************************************************************)
cholesky(I, A) ==
    LET n == Size(I)
        F[j \in 0..n] ==
            IF j = 0 THEN [ok |-> TRUE,
                           L |-> AsArray([i \in I |->
                                            AsArray([k \in I |-> R(0)])]),
                           D |-> AsArray([i \in I |-> R(0)])]
            ELSE LET p == F[j - 1]
                     d == RSub(A[j][j],
                               RSum([k \in 1..(j - 1) |->
                                  RMul(RMul(p.L[j][k], p.L[j][k]), p.D[k])]))
                 IN  IF ~p.ok \/ ~RPos(d) THEN [p EXCEPT !.ok = FALSE]
                     ELSE [ok |-> TRUE,
                           D |-> [p.D EXCEPT ![j] = d],
                           L |-> AsArray([i \in I |->
                                   IF i = j THEN [p.L[i] EXCEPT ![j] = R(1)]
                                   ELSE IF i < j THEN p.L[i]
                                   ELSE [p.L[i] EXCEPT ![j] =
                                     RDiv(RSub(A[i][j],
                                        RSum([k \in 1..(j - 1) |->
                                           RMul(RMul(p.L[i][k], p.L[j][k]),
                                                p.D[k])])), d)]])]
    IN  F[n]

cho_solve(I, c, b) ==
    LET n == Size(I)
        y[i \in I] ==
            RSub(b[i], RSum([k \in 1..(i - 1) |-> RMul(c.L[i][k], y[k])]))
        x[i \in I] ==
            RSub(RDiv(y[i], c.D[i]),
                 RSum([k \in 1..(n - i) |-> RMul(c.L[i + k][i], x[i + k])]))
    IN  AsArray([i \in I |-> x[i]])

\* cho_solve with a matrix right-hand side: column by column.
cho_solve_mat(I, K, c, B) ==
    Transpose(K, I, AsArray([k \in K |->
        cho_solve(I, c, AsArray([i \in I |-> B[i][k]]))]))

(***************************************************************************)
(* The numeric specification: one Euclidean-metric system and one State.   *)
(* num.variant is the metric class (Isotropic, Diagonal, Dense), num.kind  *)
(* what it is combined with: "plain" (the ...EuclideanMetricSystem),       *)
(* "constrained" (the ...MetricConstrainedSystem) or "observed" (the       *)
(* ...EuclideanMetricObservedGeneratorSystem).  The position is never      *)
(* reassigned here, so the quantities memoised on the position are         *)
(* written as plain computations; kin_energy keeps its cache entry.        *)
(***************************************************************************)
MaxVal == 1

MetricVals == {1, 2}

OffDiagVals == {-1, 0, 1}

Variants == {"Isotropic", "Diagonal", "Dense"}

Kinds == {"plain", "constrained", "observed"}

IntVec(S) == {[i \in Idx |-> R(v[i])] : v \in [Idx -> S]}

MomVecs == IntVec(-MaxVal..MaxVal)

PosVecs == IntVec(0..MaxVal)

DiagMetrics == IntVec(MetricVals)

Sym(a, b, c) == [i \in Idx |-> [j \in Idx |->
                   IF i = j THEN (IF i = 1 THEN R(a) ELSE R(c)) ELSE R(b)]]

\* DenseEuclideanMetricSystem.__init__ factors the metric (line 176): only
\* a positive definite metric yields a system.
DenseMetrics ==
    {m \in {Sym(a, b, c) : a \in MetricVals, b \in OffDiagVals,
                           c \in MetricVals} : cholesky(Idx, m).ok}

Metrics(variant) ==
    CASE variant = "Isotropic" -> {R(1)}
      [] variant = "Diagonal" -> DiagMetrics
      [] variant = "Dense" -> DenseMetrics

(***************************************************************************)
(* The user's functions of the numeric specification: the potential        *)
(* energy of the specification's scenario, pot_energy(x) = |x|^2 / 2, and  *)
(* the constraint (or generator) c(x) = |x|^2 / 2 with one component,      *)
(* whose Jacobian at x is the row x.                                       *)
(***************************************************************************)
user_pot_energy(pos) == RMul(Half, Dot(Idx, pos, pos))

user_jacob_constr(pos) == AsArray([k \in CIdx |-> pos])

(***************************************************************************)
(* _kin_energy, _grad_kin_energy and mult_inv_metric of the three metric   *)
(* classes (lines 108-191).                                                *)
(***************************************************************************)
Isotropic_kin_energy(mom) == RMul(Half, Dot(Idx, mom, mom))

\* Mutant of the diagonal _kin_energy: the momentum is not squared.
Diagonal_kin_energy_unsquared(mom) ==
    RMul(Half, RSum([i \in 1..Size(Idx) |-> RDiv(mom[i], num.metric[i])]))

Diagonal_kin_energy(mom) ==
    RMul(Half, RSum([i \in 1..Size(Idx) |->
                       RDiv(RMul(mom[i], mom[i]), num.metric[i])]))

Dense_grad_kin_energy(mom) == cho_solve(Idx, num.chol_metric, mom)

Dense_kin_energy(mom) ==
    RMul(Half, Dot(Idx, mom, Dense_grad_kin_energy(mom)))

kin_energy_of(mom) ==
    CASE num.variant = "Isotropic" -> Isotropic_kin_energy(mom)
      [] num.variant = "Diagonal" -> Diagonal_kin_energy(mom)
      [] num.variant = "Dense" -> Dense_kin_energy(mom)

Isotropic_mult_inv_metric(K, rhs) == rhs

Diagonal_mult_inv_metric(K, rhs) ==
    AsArray([i \in Idx |->
        AsArray([k \in K |-> RDiv(rhs[i][k], num.metric[i])])])

Dense_mult_inv_metric(K, rhs) == cho_solve_mat(Idx, K, num.chol_metric, rhs)

\* rhs is a matrix with rows Idx and columns K (a vector is one column).
mult_inv_metric(K, rhs) ==
    CASE num.variant = "Isotropic" -> Isotropic_mult_inv_metric(K, rhs)
      [] num.variant = "Diagonal" -> Diagonal_mult_inv_metric(K, rhs)
      [] num.variant = "Dense" -> Dense_mult_inv_metric(K, rhs)

Col(I, v) == AsArray([i \in I |-> AsArray([k \in CIdx |-> v[i]])])

UnCol(I, B) == AsArray([i \in I |-> B[i][1]])

(***************************************************************************)
(* BaseEuclideanMetricConstrainedSystem (lines 408-439) at the state's     *)
(* position.                                                               *)
(***************************************************************************)
num_jacob_constr == user_jacob_constr(num.pos)

num_inv_metric_jacob_constr_t ==
    mult_inv_metric(CIdx, Transpose(CIdx, Idx, num_jacob_constr))

\* chol_gram (lines 421-425) is memoised on the position: num.gramc holds
\* the factor once a call has computed it (a call that raises stores
\* nothing).
compute_chol_gram ==
    cholesky(CIdx, MatMul(CIdx, Idx, CIdx, num_jacob_constr,
                          num_inv_metric_jacob_constr_t))

num_chol_gram == IF num.gramc.has THEN num.gramc.val ELSE compute_chol_gram

\* Mutant of the projection: the metric is left out of the right-hand side.
project_without_metric(mom) ==
    LET j == num_jacob_constr
        rhs == MatVec(CIdx, Idx, j, mom)
        sol == cho_solve(CIdx, num_chol_gram, rhs)
    IN  VecSub(Idx, mom, MatVec(Idx, CIdx, Transpose(CIdx, Idx, j), sol))

\* Mutant of the projection: half of the normal component is removed.
project_half(mom) ==
    LET j == num_jacob_constr
        rhs == MatVec(CIdx, Idx, j, UnCol(Idx, mult_inv_metric(CIdx,
                                                   Col(Idx, mom))))
        sol == cho_solve(CIdx, num_chol_gram, rhs)
    IN  VecSub(Idx, mom,
               MatVec(Idx, CIdx, Transpose(CIdx, Idx, j),
                      AsArray([k \in CIdx |-> RMul(Half, sol[k])])))

\* The momentum project_onto_tangent_space leaves in mom (the Gram matrix
\* has been factored).
project_onto_tangent_space(mom) ==
    LET j == num_jacob_constr
        rhs == MatVec(CIdx, Idx, j, UnCol(Idx, mult_inv_metric(CIdx,
                                                   Col(Idx, mom))))
        sol == cho_solve(CIdx, num_chol_gram, rhs)
    IN  VecSub(Idx, mom, MatVec(Idx, CIdx, Transpose(CIdx, Idx, j), sol))

(***************************************************************************)
(* Energies.  A value q + ln(lg) / 2 is kept as [q, lg], which is exact:   *)
(* log_det_sqrt_gram, the sum of the logarithms of the diagonal of the     *)
(* Cholesky factor, is half the logarithm of the product of the pivots.    *)
(***************************************************************************)
Plain(q) == [q |-> q, lg |-> R(1)]

LAdd(x, y) == [q |-> RAdd(x.q, y.q), lg |-> RMul(x.lg, y.lg)]

LSub(x, y) == [q |-> RSub(x.q, y.q), lg |-> RDiv(x.lg, y.lg)]

RECURSIVE RProd(_)
RProd(seq) == IF Len(seq) = 0 THEN R(1)
              ELSE RMul(seq[1], RProd(Tail(seq)))

num_pot_energy == Plain(user_pot_energy(num.pos))

num_log_det_sqrt_gram ==
    [q |-> R(0), lg |-> RProd([k \in 1..Size(CIdx) |-> num_chol_gram.D[k]])]

\* kin_energy (lines 68-70): memoised on the momentum's generation stamp.
NumKinHit == num.kinc.has /\ num.kinc.stamp = num.momgen

num_kin_energy ==
    IF NumKinHit THEN num.kinc.val ELSE Plain(kin_energy_of(num.mom))

NumIdle == [on |-> FALSE]

(***************************************************************************)
(* Module import (lines 8-15).  ImportOutcomes are the ways the try block  *)
(* can end: both imports succeed, `from autograd import make_vjp` fails    *)
(* (nothing is bound), or the hmc.autograd_extensions import fails (only   *)
(* make_vjp is bound).                                                     *)
(***************************************************************************)
ImportOutcomes == {"ok", "no_autograd", "no_extensions"}

AUTOGRAD_AVAILABLE == imports = "ok"

BoundNames ==
    CASE imports = "ok" ->
           {"make_vjp", "grad_and_value", "jacobian_and_value",
            "hessian_grad_and_value", "mhp_jacobian_and_value",
            "mtp_hessian_grad_and_value"}
      [] imports = "no_extensions" -> {"make_vjp"}
      [] OTHER -> {}

(***************************************************************************)
(* _autograd_fallback (lines 20-27): the resolution of one optional        *)
(* derivative.  supplied is whether diff_func is not None.                 *)
(***************************************************************************)
autograd_fallback(supplied, name) ==
    IF supplied THEN [kind |-> "user", err |-> "", what |-> name]
    ELSE IF AUTOGRAD_AVAILABLE
         THEN [kind |-> "autograd", err |-> "", what |-> name]
         ELSE [kind |-> "", err |-> "ValueError", what |-> name]

(***************************************************************************)
(* One call `_autograd_fallback(diff_func, func, diff_op, name)` as the    *)
(* constructors write it: Python evaluates the argument diff_op, a module  *)
(* global, before the call; an unbound global raises NameError.            *)
(***************************************************************************)
ResolveCall(supplied, diff_op, name) ==
    IF diff_op \notin BoundNames
    THEN [kind |-> "", err |-> "NameError", what |-> diff_op]
    ELSE autograd_fallback(supplied, name)

Classes ==
    {"IsotropicEuclideanMetricSystem", "DenseRiemannianMetricSystem",
     "FactoredRiemannianMetricSystem", "SoftAbsRiemannianMetricSystem",
     "IsotropicMetricConstrainedSystem",
     "IsotropicEuclideanMetricObservedGeneratorSystem"}

(***************************************************************************)
(* The _autograd_fallback calls each class's __init__ chain makes, in      *)
(* order: <<derivative name, diff_op>>.                                    *)
(***************************************************************************)
HamiltonianSystem_init == << <<"grad_pot_energy", "grad_and_value">> >>

InitCalls(cls) ==
    CASE cls = "DenseRiemannianMetricSystem" ->
           HamiltonianSystem_init \o << <<"vjp_metric", "make_vjp">> >>
      [] cls = "FactoredRiemannianMetricSystem" ->
           HamiltonianSystem_init \o << <<"vjp_chol_metric", "make_vjp">> >>
      [] cls = "SoftAbsRiemannianMetricSystem" ->
           HamiltonianSystem_init \o
           << <<"hess_pot_energy", "hessian_grad_and_value">>,
              <<"mtp_pot_energy", "mtp_hessian_grad_and_value">> >>
      [] cls = "IsotropicMetricConstrainedSystem" ->
           HamiltonianSystem_init \o
           << <<"jacob_constr", "jacobian_and_value">> >>
      [] cls = "IsotropicEuclideanMetricObservedGeneratorSystem" ->
           HamiltonianSystem_init \o
           << <<"jacob_generator", "jacobian_and_value">>,
              <<"mhp_generator", "mhp_jacobian_and_value">> >>
      [] OTHER -> HamiltonianSystem_init

DerivNames == {"grad_pot_energy", "vjp_metric", "vjp_chol_metric",
               "hess_pot_energy", "mtp_pot_energy", "jacob_constr",
               "jacob_generator", "mhp_generator"}

Derivs(cls) == {InitCalls(cls)[i][1] : i \in 1..Len(InitCalls(cls))}

NoDerivs == [n \in DerivNames |-> ""]

(***************************************************************************)
(* Running a constructor: the calls are made one after another; the first  *)
(* that raises ends the construction and no object is produced.            *)
(***************************************************************************)
RECURSIVE RunInit(_, _, _, _)
RunInit(calls, supplied, i, d) ==
    IF i > Len(calls)
    THEN [outcome |-> "ok", what |-> "", d |-> d]
    ELSE LET r == ResolveCall(calls[i][1] \in supplied, calls[i][2],
                              calls[i][1])
         IN  IF r.err # ""
             THEN [outcome |-> r.err, what |-> r.what, d |-> NoDerivs]
             ELSE RunInit(calls, supplied, i + 1,
                          [d EXCEPT ![calls[i][1]] = r.kind])

NoSys == [cls |-> "", supplied |-> {}, outcome |-> "none", what |-> "",
          d |-> NoDerivs]

construct(cls, supplied) ==
    LET r == RunInit(InitCalls(cls), supplied, 1, NoDerivs)
    IN  [cls |-> cls, supplied |-> supplied, outcome |-> r.outcome,
         what |-> r.what, d |-> r.d]

(***************************************************************************)
(* State (hmc.states): position, momentum, one generation stamp per field  *)
(* and the cache.  A value is symbolic: the quantity q and the position    *)
(* values ps and momentum values ms it was computed from.                  *)
(***************************************************************************)
Fields == {"pos", "mom"}

NoVal == [q |-> "", ps |-> {}, ms |-> {}]

V(q, ins) == [q |-> q,
              ps |-> UNION {i.ps : i \in ins},
              ms |-> UNION {i.ms : i \in ins}]

PosV == [q |-> "pos", ps |-> {st.pos}, ms |-> {}]

MomV == [q |-> "mom", ps |-> {}, ms |-> {st.mom}]

KeySet ==
    {"pot_energy", "grad_pot_energy", "kin_energy", "grad_kin_energy",
     "log_det_sqrt_metric", "inv_metric_mom", "grad_log_det_sqrt_metric",
     "grad_mom_inv_metric_mom", "metric", "chol_metric", "inv_metric",
     "vjp_metric", "inv_chol_metric", "hess_pot_energy", "mtp_pot_energy",
     "eig_metric", "sqrt_metric", "inv_metric_jacob_constr_t", "chol_gram",
     "constr", "jacob_constr", "generator", "jacob_generator",
     "mhp_generator", "log_det_sqrt_gram", "grad_log_det_sqrt_gram"}

NoStamp == [f \in Fields |-> -1]

NoEntry == [has |-> FALSE, stamp |-> NoStamp, val |-> NoVal]

EmptyCache == [k \in KeySet |-> NoEntry]

(***************************************************************************)
(* The memoisation layer.  cache_in_state and multi_cache_in_state are     *)
(* imported from hmc.states, which is not part of the source here; they    *)
(* follow the specification of the StateCache: an entry is tagged with the *)
(* generation stamps of the fields it depends on, is served while those    *)
(* stamps are current and is recomputed (never purged) otherwise.          *)
(***************************************************************************)
Entry(deps, v) ==
    [has |-> TRUE,
     stamp |-> [f \in Fields |-> IF f \in deps THEN st.gen[f] ELSE -1],
     val |-> v]

Status(cache, key, deps) ==
    IF ~cache[key].has THEN "miss"
    ELSE IF \A f \in deps : cache[key].stamp[f] = st.gen[f]
         THEN "hit" ELSE "stale"

Look(c, key, deps) ==
    IF c.top = "none" THEN [c EXCEPT !.top = Status(c.cache, key, deps)]
    ELSE c

cache_in_state(deps, key, Body(_), c) ==
    IF Status(c.cache, key, deps) = "hit"
    THEN [Look(c, key, deps) EXCEPT !.val = c.cache[key].val]
    ELSE LET r == Body(Look(c, key, deps))
         IN  [r EXCEPT !.cache[key] = Entry(deps, r.val)]

multi_cache_in_state(deps, keys, Body(_), c) ==
    IF Status(c.cache, keys[1], deps) = "hit"
    THEN [Look(c, keys[1], deps) EXCEPT !.val = c.cache[keys[1]].val]
    ELSE LET r == Body(Look(c, keys[1], deps))
             n == IF Len(r.vals) < Len(keys) THEN Len(r.vals) ELSE Len(keys)
             at(k) == CHOOSE i \in 1..n : keys[i] = k
         IN  [r EXCEPT
                !.cache = [k \in KeySet |->
                             IF \E i \in 1..n : keys[i] = k
                             THEN Entry(deps, r.vals[at(k)])
                             ELSE r.cache[k]],
                !.val = r.vals[1]]

Ctx == [cache |-> st.cache, inv |-> <<>>, top |-> "none", val |-> NoVal,
        vals |-> <<>>]

(***************************************************************************)
(* Calling a function held by the system.  Invoke is a call of an          *)
(* attribute that is a plain function of the position.  Differentiated is  *)
(* a call of an attribute _autograd_fallback resolved: the user's override *)
(* returns the derivative alone; the differentiation operator evaluates    *)
(* the user function func once and returns the derivative together with    *)
(* the cheaper quantities (qs, derivative first).                          *)
(***************************************************************************)
Invoke(c, attr, q) ==
    [c EXCEPT !.inv = Append(@, attr), !.val = V(q, {PosV})]

Differentiated(c, name, attr, func, qs) ==
    IF sys.d[name] = "user"
    THEN [c EXCEPT !.inv = Append(@, attr),
                   !.vals = << V(qs[1], {PosV}) >>]
    ELSE [c EXCEPT !.inv = Append(Append(@, attr), func),
                   !.vals = [i \in 1..Len(qs) |-> V(qs[i], {PosV})]]

Ret(r, q, ins) == [r EXCEPT !.val = V(q, ins)]

(***************************************************************************)
(* HamiltonianSystem (lines 30-56).                                        *)
(***************************************************************************)
\* Mutant of pot_energy: the value is not memoised.
pot_energy_uncached(c) == Invoke(c, "_pot_energy", "pot_energy")

pot_energy(c) ==
    cache_in_state({"pos"}, "pot_energy",
                   LAMBDA b : Invoke(b, "_pot_energy", "pot_energy"), c)

grad_pot_energy(c) ==
    multi_cache_in_state({"pos"}, <<"grad_pot_energy", "pot_energy">>,
        LAMBDA b : Differentiated(b, "grad_pot_energy", "_grad_pot_energy",
                       "_pot_energy", <<"grad_pot_energy", "pot_energy">>),
        c)

(***************************************************************************)
(* SeparableHamiltonianSystem (lines 59-92) with the isotropic             *)
(* _kin_energy / _grad_kin_energy (lines 118-122).                         *)
(***************************************************************************)
\* Mutant of kin_energy: declared on both fields.
kin_energy_on_pos_and_mom(c) ==
    cache_in_state({"pos", "mom"}, "kin_energy",
        LAMBDA b : [b EXCEPT !.inv = Append(@, "_kin_energy"),
                             !.val = V("kin_energy", {MomV})], c)

kin_energy(c) ==
    cache_in_state({"mom"}, "kin_energy",
        LAMBDA b : [b EXCEPT !.inv = Append(@, "_kin_energy"),
                             !.val = V("kin_energy", {MomV})], c)

grad_kin_energy(c) ==
    cache_in_state({"mom"}, "grad_kin_energy",
        LAMBDA b : [b EXCEPT !.inv = Append(@, "_grad_kin_energy"),
                             !.val = V("grad_kin_energy", {MomV})], c)

(***************************************************************************)
(* DenseRiemannianMetricSystem (lines 258-293) and                         *)
(* FactoredRiemannianMetricSystem (lines 296-331).                         *)
(***************************************************************************)
metric(c) ==
    cache_in_state({"pos"}, "metric",
                   LAMBDA b : Invoke(b, "_metric", "metric"), c)

Dense_chol_metric(c) ==
    cache_in_state({"pos"}, "chol_metric",
        LAMBDA b : LET m == metric(b) IN Ret(m, "chol_metric", {m.val}), c)

vjp_metric(c) ==
    multi_cache_in_state({"pos"}, <<"vjp_metric", "metric">>,
        LAMBDA b : Differentiated(b, "vjp_metric", "_vjp_metric", "_metric",
                                  <<"vjp_metric", "metric">>), c)

Factored_chol_metric(c) ==
    cache_in_state({"pos"}, "chol_metric",
                   LAMBDA b : Invoke(b, "_chol_metric", "chol_metric"), c)

vjp_chol_metric(c) ==
    multi_cache_in_state({"pos"}, <<"vjp_metric", "metric">>,
        LAMBDA b : Differentiated(b, "vjp_chol_metric", "_vjp_chol_metric",
                       "_chol_metric", <<"vjp_chol_metric", "chol_metric">>),
        c)

chol_metric(c) ==
    IF sys.cls = "DenseRiemannianMetricSystem"
    THEN Dense_chol_metric(c) ELSE Factored_chol_metric(c)

(***************************************************************************)
(* BaseCholeskyRiemannianMetricSystem (lines 239-255).                     *)
(***************************************************************************)
Cholesky_log_det_sqrt_metric(c) ==
    cache_in_state({"pos"}, "log_det_sqrt_metric",
        LAMBDA b : LET l == chol_metric(b)
                   IN  Ret(l, "log_det_sqrt_metric", {l.val}), c)

\* Mutant of inv_metric_mom: declared on the position alone.
Cholesky_inv_metric_mom_on_pos(c) ==
    cache_in_state({"pos"}, "inv_metric_mom",
        LAMBDA b : LET l == chol_metric(b)
                   IN  Ret(l, "inv_metric_mom", {l.val, MomV}), c)

Cholesky_inv_metric_mom(c) ==
    cache_in_state({"pos", "mom"}, "inv_metric_mom",
        LAMBDA b : LET l == chol_metric(b)
                   IN  Ret(l, "inv_metric_mom", {l.val, MomV}), c)

inv_metric(c) ==
    cache_in_state({"pos"}, "inv_metric",
        LAMBDA b : LET l == Dense_chol_metric(b)
                   IN  Ret(l, "inv_metric", {l.val}), c)

Dense_grad_log_det_sqrt_metric(c) ==
    cache_in_state({"pos"}, "grad_log_det_sqrt_metric",
        LAMBDA b : LET i == inv_metric(b)
                       v == vjp_metric(i)
                   IN  Ret(v, "grad_log_det_sqrt_metric", {i.val, v.val}),
        c)

Dense_grad_mom_inv_metric_mom(c) ==
    cache_in_state({"pos", "mom"}, "grad_mom_inv_metric_mom",
        LAMBDA b : LET i == Cholesky_inv_metric_mom(b)
                       v == vjp_metric(i)
                   IN  Ret(v, "grad_mom_inv_metric_mom", {i.val, v.val}),
        c)

inv_chol_metric(c) ==
    cache_in_state({"pos"}, "inv_chol_metric",
        LAMBDA b : LET l == Factored_chol_metric(b)
                   IN  Ret(l, "inv_chol_metric", {l.val}), c)

Factored_grad_log_det_sqrt_metric(c) ==
    cache_in_state({"pos"}, "grad_log_det_sqrt_metric",
        LAMBDA b : LET i == inv_chol_metric(b)
                       v == vjp_chol_metric(i)
                   IN  Ret(v, "grad_log_det_sqrt_metric", {i.val, v.val}),
        c)

Factored_grad_mom_inv_metric_mom(c) ==
    cache_in_state({"pos", "mom"}, "grad_mom_inv_metric_mom",
        LAMBDA b : LET l == Factored_chol_metric(b)
                       i == Cholesky_inv_metric_mom(l)
                       v == vjp_chol_metric(i)
                   IN  Ret(v, "grad_mom_inv_metric_mom",
                           {l.val, MomV, i.val, v.val}), c)

(***************************************************************************)
(* SoftAbsRiemannianMetricSystem (lines 334-405).                          *)
(***************************************************************************)
hess_pot_energy(c) ==
    multi_cache_in_state({"pos"},
        <<"hess_pot_energy", "grad_pot_energy", "pot_energy">>,
        LAMBDA b : Differentiated(b, "hess_pot_energy", "_hess_pot_energy",
                       "_pot_energy",
                       <<"hess_pot_energy", "grad_pot_energy",
                         "pot_energy">>), c)

mtp_pot_energy(c) ==
    multi_cache_in_state({"pos"},
        <<"mtp_pot_energy", "hess_pot_energy", "grad_pot_energy",
          "pot_energy">>,
        LAMBDA b : Differentiated(b, "mtp_pot_energy", "_mtp_pot_energy",
                       "_pot_energy",
                       <<"mtp_pot_energy", "hess_pot_energy",
                         "grad_pot_energy", "pot_energy">>), c)

eig_metric(c) ==
    cache_in_state({"pos"}, "eig_metric",
        LAMBDA b : LET h == hess_pot_energy(b)
                   IN  Ret(h, "eig_metric", {h.val}), c)

sqrt_metric(c) ==
    cache_in_state({"pos"}, "sqrt_metric",
        LAMBDA b : LET e == eig_metric(b)
                   IN  Ret(e, "sqrt_metric", {e.val}), c)

SoftAbs_log_det_sqrt_metric(c) ==
    cache_in_state({"pos"}, "log_det_sqrt_metric",
        LAMBDA b : LET e == eig_metric(b)
                   IN  Ret(e, "log_det_sqrt_metric", {e.val}), c)

SoftAbs_grad_log_det_sqrt_metric(c) ==
    cache_in_state({"pos"}, "grad_log_det_sqrt_metric",
        LAMBDA b : LET e == eig_metric(b)
                       m == mtp_pot_energy(e)
                   IN  Ret(m, "grad_log_det_sqrt_metric", {e.val, m.val}),
        c)

SoftAbs_inv_metric_mom(c) ==
    cache_in_state({"pos", "mom"}, "inv_metric_mom",
        LAMBDA b : LET e == eig_metric(b)
                   IN  Ret(e, "inv_metric_mom", {e.val, MomV}), c)

SoftAbs_grad_mom_inv_metric_mom(c) ==
    cache_in_state({"pos", "mom"}, "grad_mom_inv_metric_mom",
        LAMBDA b : LET e == eig_metric(b)
                       m == mtp_pot_energy(e)
                   IN  Ret(m, "grad_mom_inv_metric_mom",
                           {e.val, MomV, m.val}), c)

(***************************************************************************)
(* Constraint and generator functions: the NoJacobianDeterminant           *)
(* constrained systems (lines 442-459) and the observed-generator systems  *)
(* (lines 486-520).                                                        *)
(***************************************************************************)
NoJacobianDeterminant_constr(c) ==
    cache_in_state({"pos"}, "constr",
                   LAMBDA b : Invoke(b, "_constr", "constr"), c)

NoJacobianDeterminant_jacob_constr(c) ==
    multi_cache_in_state({"pos"}, <<"jacob_constr", "constr">>,
        LAMBDA b : Differentiated(b, "jacob_constr", "_jacob_constr",
                       "_constr", <<"jacob_constr", "constr">>), c)

generator(c) ==
    cache_in_state({"pos"}, "generator",
                   LAMBDA b : Invoke(b, "_generator", "generator"), c)

jacob_generator(c) ==
    multi_cache_in_state({"pos"}, <<"jacob_generator", "generator">>,
        LAMBDA b : Differentiated(b, "jacob_generator", "_jacob_generator",
                       "_generator", <<"jacob_generator", "generator">>), c)

mhp_generator(c) ==
    multi_cache_in_state({"pos"},
        <<"mhp_generator", "jacob_generator", "generator">>,
        LAMBDA b : Differentiated(b, "mhp_generator", "_mhp_generator",
                       "_generator",
                       <<"mhp_generator", "jacob_generator", "generator">>),
        c)

ObservedGenerator_constr(c) ==
    LET g == generator(c) IN Ret(g, "constr", {g.val})

ObservedGenerator_jacob_constr(c) == jacob_generator(c)

IsObservedGenerator ==
    sys.cls = "IsotropicEuclideanMetricObservedGeneratorSystem"

constr(c) ==
    IF IsObservedGenerator
    THEN ObservedGenerator_constr(c) ELSE NoJacobianDeterminant_constr(c)

jacob_constr(c) ==
    IF IsObservedGenerator
    THEN ObservedGenerator_jacob_constr(c)
    ELSE NoJacobianDeterminant_jacob_constr(c)

(***************************************************************************)
(* BaseEuclideanMetricConstrainedSystem (lines 408-425) and the            *)
(* Gram-matrix terms of the observed-generator systems (lines 522-534).    *)
(***************************************************************************)
inv_metric_jacob_constr_t(c) ==
    cache_in_state({"pos"}, "inv_metric_jacob_constr_t",
        LAMBDA b : LET j == jacob_constr(b)
                   IN  Ret(j, "inv_metric_jacob_constr_t", {j.val}), c)

chol_gram(c) ==
    cache_in_state({"pos"}, "chol_gram",
        LAMBDA b : LET j == jacob_constr(b)
                       i == inv_metric_jacob_constr_t(j)
                   IN  Ret(i, "chol_gram", {j.val, i.val}), c)

log_det_sqrt_gram(c) ==
    cache_in_state({"pos"}, "log_det_sqrt_gram",
        LAMBDA b : LET g == chol_gram(b)
                   IN  Ret(g, "log_det_sqrt_gram", {g.val}), c)

grad_log_det_sqrt_gram(c) ==
    cache_in_state({"pos"}, "grad_log_det_sqrt_gram",
        LAMBDA b : LET m == mhp_generator(b)
                       j == jacob_generator(m)
                       g == chol_gram(j)
                       n == mhp_generator(g)
                   IN  Ret(n, "grad_log_det_sqrt_gram",
                           {j.val, g.val, n.val}), c)

(***************************************************************************)
(* The methods each class offers, and the method a name resolves to on     *)
(* the constructed system (Python's method resolution order).              *)
(***************************************************************************)
BaseMethods == {"pot_energy", "grad_pot_energy"}

SeparableMethods == BaseMethods \cup {"kin_energy", "grad_kin_energy"}

ConstrainedMethods ==
    SeparableMethods \cup
    {"constr", "jacob_constr", "inv_metric_jacob_constr_t", "chol_gram"}

Methods(cls) ==
    CASE cls = "IsotropicEuclideanMetricSystem" -> SeparableMethods
      [] cls = "DenseRiemannianMetricSystem" ->
           BaseMethods \cup
           {"log_det_sqrt_metric", "inv_metric_mom",
            "grad_log_det_sqrt_metric", "grad_mom_inv_metric_mom", "metric",
            "chol_metric", "inv_metric", "vjp_metric"}
      [] cls = "FactoredRiemannianMetricSystem" ->
           BaseMethods \cup
           {"log_det_sqrt_metric", "inv_metric_mom",
            "grad_log_det_sqrt_metric", "grad_mom_inv_metric_mom",
            "chol_metric", "inv_chol_metric", "vjp_chol_metric"}
      [] cls = "SoftAbsRiemannianMetricSystem" ->
           BaseMethods \cup
           {"hess_pot_energy", "mtp_pot_energy", "eig_metric", "sqrt_metric",
            "log_det_sqrt_metric", "inv_metric_mom",
            "grad_log_det_sqrt_metric", "grad_mom_inv_metric_mom"}
      [] cls = "IsotropicMetricConstrainedSystem" -> ConstrainedMethods
      [] cls = "IsotropicEuclideanMetricObservedGeneratorSystem" ->
           ConstrainedMethods \cup
           {"generator", "jacob_generator", "mhp_generator",
            "log_det_sqrt_gram", "grad_log_det_sqrt_gram"}
      [] OTHER -> {}

IsSoftAbs == sys.cls = "SoftAbsRiemannianMetricSystem"

IsDense == sys.cls = "DenseRiemannianMetricSystem"

log_det_sqrt_metric(c) ==
    IF IsSoftAbs THEN SoftAbs_log_det_sqrt_metric(c)
    ELSE Cholesky_log_det_sqrt_metric(c)

inv_metric_mom(c) ==
    IF IsSoftAbs THEN SoftAbs_inv_metric_mom(c)
    ELSE Cholesky_inv_metric_mom(c)

grad_log_det_sqrt_metric(c) ==
    IF IsSoftAbs THEN SoftAbs_grad_log_det_sqrt_metric(c)
    ELSE IF IsDense THEN Dense_grad_log_det_sqrt_metric(c)
    ELSE Factored_grad_log_det_sqrt_metric(c)

grad_mom_inv_metric_mom(c) ==
    IF IsSoftAbs THEN SoftAbs_grad_mom_inv_metric_mom(c)
    ELSE IF IsDense THEN Dense_grad_mom_inv_metric_mom(c)
    ELSE Factored_grad_mom_inv_metric_mom(c)

Method(op, c) ==
    CASE op = "pot_energy" -> pot_energy(c)
      [] op = "grad_pot_energy" -> grad_pot_energy(c)
      [] op = "kin_energy" -> kin_energy(c)
      [] op = "grad_kin_energy" -> grad_kin_energy(c)
      [] op = "metric" -> metric(c)
      [] op = "chol_metric" -> chol_metric(c)
      [] op = "inv_metric" -> inv_metric(c)
      [] op = "vjp_metric" -> vjp_metric(c)
      [] op = "inv_chol_metric" -> inv_chol_metric(c)
      [] op = "vjp_chol_metric" -> vjp_chol_metric(c)
      [] op = "log_det_sqrt_metric" -> log_det_sqrt_metric(c)
      [] op = "inv_metric_mom" -> inv_metric_mom(c)
      [] op = "grad_log_det_sqrt_metric" -> grad_log_det_sqrt_metric(c)
      [] op = "grad_mom_inv_metric_mom" -> grad_mom_inv_metric_mom(c)
      [] op = "hess_pot_energy" -> hess_pot_energy(c)
      [] op = "mtp_pot_energy" -> mtp_pot_energy(c)
      [] op = "eig_metric" -> eig_metric(c)
      [] op = "sqrt_metric" -> sqrt_metric(c)
      [] op = "constr" -> constr(c)
      [] op = "jacob_constr" -> jacob_constr(c)
      [] op = "generator" -> generator(c)
      [] op = "jacob_generator" -> jacob_generator(c)
      [] op = "mhp_generator" -> mhp_generator(c)
      [] op = "inv_metric_jacob_constr_t" -> inv_metric_jacob_constr_t(c)
      [] op = "chol_gram" -> chol_gram(c)
      [] op = "log_det_sqrt_gram" -> log_det_sqrt_gram(c)
      [] op = "grad_log_det_sqrt_gram" -> grad_log_det_sqrt_gram(c)

SoftAbsIdle == [on |-> FALSE]

(***************************************************************************)
(* The state machine.  obs records the last event: the operation, what it  *)
(* returned, the functions it invoked (in order), how its first cache      *)
(* lookup ended, the event before it and the number of events so far.      *)
(***************************************************************************)
Idle == [op |-> "none", ret |-> NoVal, inv |-> <<>>, top |-> "none",
         prev |-> "none", n |-> 0]

Init ==
    /\ imports \in ImportOutcomes
    /\ sys = NoSys
    /\ st = [pos |-> 0, mom |-> 0, gen |-> [f \in Fields |-> 0],
             cache |-> EmptyCache]
    /\ obs = Idle
    /\ num = NumIdle
    /\ sa = SoftAbsIdle

Construct ==
    /\ sys.outcome = "none"
    /\ \E cls \in Classes : \E supplied \in SUBSET Derivs(cls) :
          sys' = construct(cls, supplied)
    /\ obs' = [Idle EXCEPT !.op = "construct"]
    /\ UNCHANGED <<imports, st, num, sa>>

CanStep == obs.n < MaxSteps

set_pos ==
    /\ sys.outcome = "ok"
    /\ CanStep
    /\ \E v \in Vals :
          st' = [st EXCEPT !.pos = v, !.gen["pos"] = @ + 1]
    /\ obs' = [Idle EXCEPT !.op = "set_pos", !.prev = obs.op,
                       !.n = obs.n + 1]
    /\ UNCHANGED <<imports, sys, num, sa>>

set_mom ==
    /\ sys.outcome = "ok"
    /\ CanStep
    /\ \E v \in Vals :
          st' = [st EXCEPT !.mom = v, !.gen["mom"] = @ + 1]
    /\ obs' = [Idle EXCEPT !.op = "set_mom", !.prev = obs.op,
                       !.n = obs.n + 1]
    /\ UNCHANGED <<imports, sys, num, sa>>

Callable(op) ==
    /\ sys.outcome = "ok"
    /\ op \in Methods(sys.cls)
    /\ CanStep

Return(op, r) ==
    /\ st' = [st EXCEPT !.cache = r.cache]
    /\ obs' = [op |-> op, ret |-> r.val, inv |-> r.inv, top |-> r.top,
               prev |-> obs.op, n |-> obs.n + 1]
    /\ UNCHANGED <<imports, sys, num, sa>>

call_pot_energy ==
    /\ Callable("pot_energy")
    /\ Return("pot_energy", pot_energy(Ctx))

call_grad_pot_energy ==
    /\ Callable("grad_pot_energy")
    /\ Return("grad_pot_energy", grad_pot_energy(Ctx))

call_kin_energy ==
    /\ Callable("kin_energy")
    /\ Return("kin_energy", kin_energy(Ctx))

call_grad_kin_energy ==
    /\ Callable("grad_kin_energy")
    /\ Return("grad_kin_energy", grad_kin_energy(Ctx))

call_metric ==
    /\ Callable("metric")
    /\ Return("metric", metric(Ctx))

call_chol_metric ==
    /\ Callable("chol_metric")
    /\ Return("chol_metric", chol_metric(Ctx))

call_inv_metric ==
    /\ Callable("inv_metric")
    /\ Return("inv_metric", inv_metric(Ctx))

call_vjp_metric ==
    /\ Callable("vjp_metric")
    /\ Return("vjp_metric", vjp_metric(Ctx))

call_inv_chol_metric ==
    /\ Callable("inv_chol_metric")
    /\ Return("inv_chol_metric", inv_chol_metric(Ctx))

call_vjp_chol_metric ==
    /\ Callable("vjp_chol_metric")
    /\ Return("vjp_chol_metric", vjp_chol_metric(Ctx))

call_log_det_sqrt_metric ==
    /\ Callable("log_det_sqrt_metric")
    /\ Return("log_det_sqrt_metric", log_det_sqrt_metric(Ctx))

call_inv_metric_mom ==
    /\ Callable("inv_metric_mom")
    /\ Return("inv_metric_mom", inv_metric_mom(Ctx))

call_grad_log_det_sqrt_metric ==
    /\ Callable("grad_log_det_sqrt_metric")
    /\ Return("grad_log_det_sqrt_metric", grad_log_det_sqrt_metric(Ctx))

call_grad_mom_inv_metric_mom ==
    /\ Callable("grad_mom_inv_metric_mom")
    /\ Return("grad_mom_inv_metric_mom", grad_mom_inv_metric_mom(Ctx))

call_hess_pot_energy ==
    /\ Callable("hess_pot_energy")
    /\ Return("hess_pot_energy", hess_pot_energy(Ctx))

call_mtp_pot_energy ==
    /\ Callable("mtp_pot_energy")
    /\ Return("mtp_pot_energy", mtp_pot_energy(Ctx))

call_eig_metric ==
    /\ Callable("eig_metric")
    /\ Return("eig_metric", eig_metric(Ctx))

call_sqrt_metric ==
    /\ Callable("sqrt_metric")
    /\ Return("sqrt_metric", sqrt_metric(Ctx))

call_constr ==
    /\ Callable("constr")
    /\ Return("constr", constr(Ctx))

call_jacob_constr ==
    /\ Callable("jacob_constr")
    /\ Return("jacob_constr", jacob_constr(Ctx))

call_generator ==
    /\ Callable("generator")
    /\ Return("generator", generator(Ctx))

call_jacob_generator ==
    /\ Callable("jacob_generator")
    /\ Return("jacob_generator", jacob_generator(Ctx))

call_mhp_generator ==
    /\ Callable("mhp_generator")
    /\ Return("mhp_generator", mhp_generator(Ctx))

call_inv_metric_jacob_constr_t ==
    /\ Callable("inv_metric_jacob_constr_t")
    /\ Return("inv_metric_jacob_constr_t", inv_metric_jacob_constr_t(Ctx))

call_chol_gram ==
    /\ Callable("chol_gram")
    /\ Return("chol_gram", chol_gram(Ctx))

call_log_det_sqrt_gram ==
    /\ Callable("log_det_sqrt_gram")
    /\ Return("log_det_sqrt_gram", log_det_sqrt_gram(Ctx))

call_grad_log_det_sqrt_gram ==
    /\ Callable("grad_log_det_sqrt_gram")
    /\ Return("grad_log_det_sqrt_gram", grad_log_det_sqrt_gram(Ctx))

Next ==
    \/ Construct
    \/ set_pos
    \/ set_mom
    \/ call_pot_energy
    \/ call_grad_pot_energy
    \/ call_kin_energy
    \/ call_grad_kin_energy
    \/ call_metric
    \/ call_chol_metric
    \/ call_inv_metric
    \/ call_vjp_metric
    \/ call_inv_chol_metric
    \/ call_vjp_chol_metric
    \/ call_log_det_sqrt_metric
    \/ call_inv_metric_mom
    \/ call_grad_log_det_sqrt_metric
    \/ call_grad_mom_inv_metric_mom
    \/ call_hess_pot_energy
    \/ call_mtp_pot_energy
    \/ call_eig_metric
    \/ call_sqrt_metric
    \/ call_constr
    \/ call_jacob_constr
    \/ call_generator
    \/ call_jacob_generator
    \/ call_mhp_generator
    \/ call_inv_metric_jacob_constr_t
    \/ call_chol_gram
    \/ call_log_det_sqrt_gram
    \/ call_grad_log_det_sqrt_gram

Spec == Init /\ [][Next]_vars

(***************************************************************************)
(* The numeric specification SpecNum.  A system of each metric class and   *)
(* kind has been constructed and a State holds a position and a momentum;  *)
(* the operations are project_onto_tangent_space(state.mom, state), which  *)
(* updates the momentum vector in place (the field is not reassigned, so   *)
(* its generation stamp stays), kin_energy, pot_energy and h.              *)
(***************************************************************************)
NoKin == [has |-> FALSE, stamp |-> 0, val |-> Plain(R(0))]

NumSystem(variant, kind, mtr, pos, mom) ==
    [on |-> TRUE, variant |-> variant, kind |-> kind, metric |-> mtr,
     chol_metric |-> IF variant = "Dense" THEN cholesky(Idx, mtr)
                     ELSE [ok |-> FALSE],
     pos |-> pos, mom |-> mom, momgen |-> 0, kinc |-> NoKin,
     gramc |-> [has |-> FALSE, val |-> [ok |-> FALSE]],
     op |-> "none", ret |-> Plain(R(0)), err |-> "", nproj |-> 0,
     before |-> mom, moved |-> FALSE]

NumInit ==
    /\ imports = "ok"
    /\ sys = NoSys
    /\ st = [pos |-> 0, mom |-> 0, gen |-> [f \in Fields |-> 0],
             cache |-> EmptyCache]
    /\ obs = Idle
    /\ sa = SoftAbsIdle
    /\ \E variant \in Variants, kind \in Kinds, pos \in PosVecs,
          mom \in MomVecs :
          \E mtr \in Metrics(variant) :
             num = NumSystem(variant, kind, mtr, pos, mom)

NumDone(op, ret, err) ==
    [num EXCEPT !.op = op, !.ret = ret, !.err = err, !.nproj = 0]

\* project_onto_tangent_space (lines 427-431): chol_gram raises on a Gram
\* matrix that is not positive definite, before the momentum is touched.
num_project_onto_tangent_space ==
    /\ num.on
    /\ num.kind # "plain"
    /\ IF num_chol_gram.ok
       THEN LET mom == project_onto_tangent_space(num.mom)
            IN  num' = [num EXCEPT !.op = "project", !.err = "",
                          !.gramc = [has |-> TRUE, val |-> num_chol_gram],
                          !.ret = Plain(R(0)),
                          !.mom = mom, !.before = num.mom,
                          !.nproj = IF num.nproj = 0 THEN 1 ELSE 2,
                          !.moved = IF num.nproj = 0 THEN mom # num.mom
                                    ELSE num.moved]
       ELSE num' = NumDone("project", Plain(R(0)), "LinAlgError")
    /\ UNCHANGED <<imports, sys, st, obs, sa>>

num_call_pot_energy ==
    /\ num.on
    /\ num' = NumDone("pot_energy", num_pot_energy, "")
    /\ UNCHANGED <<imports, sys, st, obs, sa>>

StoreKin(n) ==
    [n EXCEPT !.kinc = [has |-> TRUE, stamp |-> num.momgen,
                        val |-> num_kin_energy]]

StoreGram(n) == [n EXCEPT !.gramc = [has |-> TRUE, val |-> num_chol_gram]]

num_call_kin_energy ==
    /\ num.on
    /\ num' = StoreKin(NumDone("kin_energy", num_kin_energy, ""))
    /\ UNCHANGED <<imports, sys, st, obs, sa>>

\* SeparableHamiltonianSystem.h (lines 76-77) and the observed-generator
\* system's h (lines 536-539), whose log_det_sqrt_gram raises before
\* kin_energy is reached when the Gram matrix cannot be factored.
num_call_h ==
    /\ num.on
    /\ IF num.kind = "observed"
       THEN IF num_chol_gram.ok
            THEN num' = StoreGram(StoreKin(NumDone("h",
                           LAdd(LAdd(num_pot_energy, num_log_det_sqrt_gram),
                                num_kin_energy), "")))
            ELSE num' = NumDone("h", Plain(R(0)), "LinAlgError")
       ELSE num' = StoreKin(NumDone("h",
                      LAdd(num_pot_energy, num_kin_energy), ""))
    /\ UNCHANGED <<imports, sys, st, obs, sa>>

NumNext ==
    \/ num_project_onto_tangent_space
    \/ num_call_pot_energy
    \/ num_call_kin_energy
    \/ num_call_h

SpecNum == NumInit /\ [][NumNext]_vars

(***************************************************************************)
(* Helpers of the properties.                                              *)
(***************************************************************************)
Count(x, seq) == Cardinality({i \in 1..Len(seq) : seq[i] = x})

Fresh(op) == Method(op, [Ctx EXCEPT !.cache = EmptyCache]).val

Served(op) == Method(op, Ctx).inv = <<>>

Constructed == sys.outcome # "none"

(***************************************************************************)
(* C1.  Whatever reassignments of state.pos and state.mom and whatever     *)
(* method calls came before, a memoised method returns the value a         *)
(* computation from the state's current position and momentum, with an     *)
(* empty cache, returns.                                                   *)
(***************************************************************************)
C1_ReturnsFresh ==
    obs.op \in Methods(sys.cls) => obs.ret = Fresh(obs.op)

\* inv_metric_mom had been computed, the momentum was reassigned, and the
\* next call found the entry stale and computed it again.
C1_Witness ==
    /\ obs.op = "inv_metric_mom"
    /\ obs.prev = "set_mom"
    /\ obs.top = "stale"
    /\ obs.ret.ms = {st.mom}

(***************************************************************************)
(* C4 as stated.  pot_energy and then grad_pot_energy on the unchanged     *)
(* state invoke the user's potential-energy function at most once in       *)
(* total.                                                                  *)
(***************************************************************************)
C4_AtMostOnce ==
    [][(obs.op = "pot_energy" /\ obs'.op = "grad_pot_energy")
        => Count("_pot_energy", obs.inv) + Count("_pot_energy", obs'.inv)
             <= 1]_vars

(***************************************************************************)
(* C4 as amended.  pot_energy and then grad_pot_energy invoke the user's   *)
(* potential-energy function at most once in total when the gradient was   *)
(* supplied, and at most twice when it is the differentiation operator's   *)
(* gradient-and-value function (which evaluates the potential itself);     *)
(* grad_pot_energy and then pot_energy invoke it at most once in total.    *)
(***************************************************************************)
C4_SharedEvaluation ==
    [][/\ (obs.op = "pot_energy" /\ obs'.op = "grad_pot_energy")
          => Count("_pot_energy", obs.inv) + Count("_pot_energy", obs'.inv)
               <= IF sys.d["grad_pot_energy"] = "user" THEN 1 ELSE 2
       /\ (obs.op = "grad_pot_energy" /\ obs'.op = "pot_energy")
          => Count("_pot_energy", obs.inv) + Count("_pot_energy", obs'.inv)
               <= 1]_vars

\* grad_pot_energy was computed by the differentiation operator and the
\* pot_energy call that followed was served from the cache.
C4_Witness ==
    /\ obs.prev = "grad_pot_energy"
    /\ obs.op = "pot_energy"
    /\ obs.top = "hit"
    /\ sys.d["grad_pot_energy"] = "autograd"
    /\ st.cache["grad_pot_energy"].has

(***************************************************************************)
(* C5.  After a call of a multi-valued method whose computation also       *)
(* yields a cheaper quantity, the call of that quantity's method on the    *)
(* unchanged state does not invoke the quantity's function.  A pair is     *)
(* <<multi-valued method, derivative it calls, cheaper method, function    *)
(* of the cheaper quantity>>.                                              *)
(***************************************************************************)
MultiPairs ==
    {<<"grad_pot_energy", "grad_pot_energy", "pot_energy", "_pot_energy">>,
     <<"hess_pot_energy", "hess_pot_energy", "grad_pot_energy",
       "_grad_pot_energy">>,
     <<"hess_pot_energy", "hess_pot_energy", "pot_energy", "_pot_energy">>,
     <<"mtp_pot_energy", "mtp_pot_energy", "hess_pot_energy",
       "_hess_pot_energy">>,
     <<"vjp_metric", "vjp_metric", "metric", "_metric">>,
     <<"vjp_chol_metric", "vjp_chol_metric", "chol_metric", "_chol_metric">>,
     <<"jacob_constr", "jacob_constr", "constr", "_constr">>,
     <<"jacob_constr", "jacob_generator", "constr", "_generator">>,
     <<"jacob_generator", "jacob_generator", "generator", "_generator">>,
     <<"mhp_generator", "mhp_generator", "jacob_generator",
       "_jacob_generator">>}

C5_CheaperServed ==
    [][\A p \in MultiPairs :
          (/\ obs.op = p[1]
           /\ obs'.op = p[3]
           /\ p[2] \in Derivs(sys.cls)
           /\ sys.d[p[2]] = "autograd")
          => Count(p[4], obs'.inv) = 0]_vars

(***************************************************************************)
(* C6.  A construction that lacks a derivative while the differentiation   *)
(* collaborator failed to import ends in a ValueError naming a missing     *)
(* derivative.                                                             *)
(***************************************************************************)
C6_ValueError ==
    (/\ Constructed
     /\ ~AUTOGRAD_AVAILABLE
     /\ sys.supplied # Derivs(sys.cls))
    => /\ sys.outcome = "ValueError"
       /\ sys.what \in Derivs(sys.cls) \ sys.supplied

(***************************************************************************)
(* C7.  A construction that is given every derivative succeeds, with or    *)
(* without the differentiation collaborator, and stores the functions      *)
(* given.                                                                  *)
(***************************************************************************)
C7_OverridesSuffice ==
    (Constructed /\ sys.supplied = Derivs(sys.cls))
    => /\ sys.outcome = "ok"
       /\ \A n \in Derivs(sys.cls) : sys.d[n] = "user"

(***************************************************************************)
(* C9.  In a separable system a reassignment of the position leaves every  *)
(* kinetic entry that would be served from the cache servable, and a       *)
(* reassignment of the momentum does the same for the potential entries.   *)
(***************************************************************************)
Separable == "kin_energy" \in Methods(sys.cls)

C9_Frame ==
    [][Separable =>
        /\ obs'.op = "set_pos" =>
             \A op \in {"kin_energy", "grad_kin_energy"} :
                Served(op) => Served(op)'
        /\ obs'.op = "set_mom" =>
             \A op \in {"pot_energy", "grad_pot_energy"} :
                Served(op) => Served(op)']_vars

\* kin_energy is served from the cache right after a reassignment of pos.
C9_Witness ==
    /\ Separable
    /\ obs.prev = "set_pos"
    /\ obs.op = "kin_energy"
    /\ obs.top = "hit"
    /\ obs.inv = <<>>

(***************************************************************************)
(* Properties of the numeric specification SpecNum.                        *)
(***************************************************************************)
ZeroC == [k \in CIdx |-> R(0)]

\* project_onto_tangent_space has just returned without raising (the Gram
\* matrix could be factored: the Jacobian has full row rank).
Projected == num.on /\ num.op = "project" /\ num.err = ""

JacobTimes(v) == MatVec(CIdx, Idx, num_jacob_constr, v)

InvMetricTimes(v) == UnCol(Idx, mult_inv_metric(CIdx, Col(Idx, v)))

\* C2, as stated: after project_onto_tangent_space the momentum satisfies
\* jacob_constr(state) @ momentum = 0, for every metric class.
C2_JacobMomZero == Projected => JacobTimes(num.mom) = ZeroC

\* C2, amended: after project_onto_tangent_space the momentum satisfies
\* jacob_constr(state) @ mult_inv_metric(momentum) = 0 for every metric
\* class, and jacob_constr(state) @ momentum = 0 for the isotropic metric.
C2_JacobInvMetricMomZero ==
    Projected =>
       /\ JacobTimes(InvMetricTimes(num.mom)) = ZeroC
       /\ num.variant = "Isotropic" => JacobTimes(num.mom) = ZeroC

C2_Witness ==
    /\ Projected
    /\ num.variant = "Diagonal"
    /\ num.nproj = 1
    /\ num.moved
    /\ JacobTimes(InvMetricTimes(num.mom)) = ZeroC
    /\ JacobTimes(num.mom) # ZeroC

\* C3: of two projections in succession at an unchanged position, the
\* second leaves the momentum equal to the result of the first.
C3_Idempotent == (Projected /\ num.nproj = 2) => num.mom = num.before

C3_Witness ==
    /\ Projected
    /\ num.nproj = 2
    /\ num.moved
    /\ num.mom = num.before

\* h has just returned without raising.
HReturned == num.on /\ num.op = "h" /\ num.err = ""

\* q + ln(lg) / 2 is negative whenever q + (lg - 1) / 2 is, as
\* ln(x) <= x - 1.
DefinitelyNegative(v) ==
    RLess(RAdd(v.q, RMul(Half, RSub(v.lg, R(1)))), R(0))

IsNonNegative(v) == v.lg = R(1) /\ RNonNeg(v.q)

\* C8, as stated: h(state) - pot_energy(state) is non-negative for the
\* plain, constrained and observed-generator systems alike.
C8_HMinusPotNonNegative ==
    HReturned => ~DefinitelyNegative(LSub(num.ret, num_pot_energy))

\* C8, amended: h(state) - pot_energy(state) is non-negative for the plain
\* and constrained systems; for the observed-generator systems it is
\* h(state) - pot_energy(state) - log_det_sqrt_gram(state) that is
\* non-negative.
C8_KineticTermNonNegative ==
    HReturned =>
       IF num.kind = "observed"
       THEN IsNonNegative(LSub(LSub(num.ret, num_pot_energy),
                               num_log_det_sqrt_gram))
       ELSE IsNonNegative(LSub(num.ret, num_pot_energy))

C8_Witness ==
    /\ HReturned
    /\ num.kind = "observed"
    /\ num.variant = "Diagonal"
    /\ RPos(num.kinc.val.q)
    /\ IsNonNegative(LSub(LSub(num.ret, num_pot_energy),
                          num_log_det_sqrt_gram))

(***************************************************************************)
(* The SoftAbs specification SpecSoftAbs: the eigenvalue computations of   *)
(* SoftAbsRiemannianMetricSystem (lines 348-405) on a Hessian with three   *)
(* integer eigenvalues, which eigh returns in ascending order.  np.tanh    *)
(* and np.sinh are tabulated at the integer arguments that occur, rounded  *)
(* to rationals; both are odd and vanish at zero, so that softabs and      *)
(* grad_softabs of a zero eigenvalue are NaN as in floating point.         *)
(***************************************************************************)
MaxEig == 2

CoeffVals == {1, 2}

EigIdx == 1..3

TanhTable == << <<16, 21>>, <<27, 28>>, <<201, 202>>, <<1490, 1491>>,
                <<9999, 10000>>, <<19999, 20000>> >>

SinhTable == << <<47, 40>>, <<29, 8>>, <<10, 1>>, <<273, 10>>, <<74, 1>>,
                <<202, 1>> >>

np_tanh(n) == IF n = 0 THEN R(0)
              ELSE IF n < 0 THEN RNeg(TanhTable[-n]) ELSE TanhTable[n]

np_sinh(n) == IF n = 0 THEN R(0)
              ELSE IF n < 0 THEN RNeg(SinhTable[-n]) ELSE SinhTable[n]

softabs(x) == RDiv(R(x), np_tanh(x * sa.softabs_coeff))

grad_softabs(x) ==
    RSub(RDiv(R(1), np_tanh(sa.softabs_coeff * x)),
         RDiv(R(sa.softabs_coeff * x),
              RMul(np_sinh(sa.softabs_coeff * x),
                   np_sinh(sa.softabs_coeff * x))))

HessEigvals ==
    {e \in [EigIdx -> -MaxEig..MaxEig] : \A i \in 1..2 : e[i] <= e[i + 1]}

\* metric_eigval of eig_metric (lines 368-373), memoised on the position.
sa_metric_eigval ==
    IF sa.eig.has THEN sa.eig.metric_eigval
    ELSE AsArray([i \in EigIdx |-> softabs(sa.hess_eigval[i])])

\* Lines 398-399: the outer difference plus diag(grad_softabs(hess_eigval)).
num_j_mtx ==
    AsArray([i \in EigIdx |-> AsArray([j \in EigIdx |->
        RAdd(RSub(sa_metric_eigval[i], sa_metric_eigval[j]),
             IF i = j THEN grad_softabs(sa.hess_eigval[i]) ELSE R(0))])])

\* Mutant of den_j_mtx: differences of the regularized eigenvalues.
den_j_mtx_regularized ==
    AsArray([i \in EigIdx |-> AsArray([j \in EigIdx |->
        IF i = j THEN R(1)
        ELSE RSub(sa_metric_eigval[i], sa_metric_eigval[j])])])

\* Lines 400-401: the outer difference with the diagonal filled with 1.
den_j_mtx ==
    AsArray([i \in EigIdx |-> AsArray([j \in EigIdx |->
        IF i = j THEN R(1)
        ELSE R(sa.hess_eigval[i] - sa.hess_eigval[j])])])

\* Line 402.
j_mtx ==
    AsArray([i \in EigIdx |-> AsArray([j \in EigIdx |->
        RDiv(num_j_mtx[i][j], den_j_mtx[i][j])])])

NoEig == [has |-> FALSE, metric_eigval |-> <<>>]

SoftAbsInit ==
    /\ imports = "ok"
    /\ sys = NoSys
    /\ st = [pos |-> 0, mom |-> 0, gen |-> [f \in Fields |-> 0],
             cache |-> EmptyCache]
    /\ obs = Idle
    /\ num = NumIdle
    /\ \E coeff \in CoeffVals, e \in HessEigvals :
          sa = [on |-> TRUE, softabs_coeff |-> coeff, hess_eigval |-> e,
                eig |-> NoEig, op |-> "none", j_mtx |-> <<>>]

sa_eig_metric ==
    /\ sa.on
    /\ sa' = [sa EXCEPT !.op = "eig_metric",
                !.eig = [has |-> TRUE, metric_eigval |-> sa_metric_eigval]]
    /\ UNCHANGED <<imports, sys, st, obs, num>>

\* grad_mom_inv_metric_mom (lines 395-405) up to j_mtx, which is recorded;
\* the matrix-tensor product it then returns is left to the collaborator.
sa_grad_mom_inv_metric_mom ==
    /\ sa.on
    /\ sa' = [sa EXCEPT !.op = "grad_mom_inv_metric_mom",
                !.eig = [has |-> TRUE, metric_eigval |-> sa_metric_eigval],
                !.j_mtx = j_mtx]
    /\ UNCHANGED <<imports, sys, st, obs, num>>

SoftAbsNext ==
    \/ sa_eig_metric
    \/ sa_grad_mom_inv_metric_mom

SpecSoftAbs == SoftAbsInit /\ [][SoftAbsNext]_vars

(***************************************************************************)
(* C10.  The divided-difference matrix of grad_mom_inv_metric_mom has      *)
(* grad_softabs of the Hessian eigenvalue on its diagonal, and off the     *)
(* diagonal the difference of the softabs values over the difference of    *)
(* the raw Hessian eigenvalues (NaN where two eigenvalues coincide or one  *)
(* of them is zero, as the quotient itself is).                            *)
(***************************************************************************)
JMtxComputed == sa.on /\ sa.op = "grad_mom_inv_metric_mom"

C10_DividedDifference ==
    JMtxComputed =>
       \A i \in EigIdx, j \in EigIdx :
          sa.j_mtx[i][j] =
             IF i = j THEN grad_softabs(sa.hess_eigval[i])
             ELSE RDiv(RSub(softabs(sa.hess_eigval[i]),
                            softabs(sa.hess_eigval[j])),
                       R(sa.hess_eigval[i] - sa.hess_eigval[j]))

\* Three distinct non-zero eigenvalues: every entry is a finite number.
C10_Witness ==
    /\ JMtxComputed
    /\ \A i \in EigIdx : sa.hess_eigval[i] # 0
    /\ \A i \in 1..2 : sa.hess_eigval[i] < sa.hess_eigval[i + 1]
    /\ \A i \in EigIdx, j \in EigIdx :
          ~IsNaN(sa.j_mtx[i][j]) /\ ~IsInf(sa.j_mtx[i][j])
    /\ sa.j_mtx[1][2] =
          RDiv(RSub(softabs(sa.hess_eigval[1]), softabs(sa.hess_eigval[2])),
               R(sa.hess_eigval[1] - sa.hess_eigval[2]))
    /\ sa.j_mtx[1][2] #
          RDiv(RSub(softabs(sa.hess_eigval[1]), softabs(sa.hess_eigval[2])),
               RSub(softabs(sa.hess_eigval[1]), softabs(sa.hess_eigval[2])))

(***************************************************************************)
(* C11.  kin_energy and h return the kinetic energy of the momentum the    *)
(* state holds now, also when kin_energy (or h) was evaluated before       *)
(* project_onto_tangent_space changed that momentum in place.              *)
(***************************************************************************)
C11_KinOfProjectedMom ==
    /\ (num.on /\ num.op = "kin_energy")
       => num.ret = Plain(kin_energy_of(num.mom))
    /\ HReturned
       => num.ret =
            LAdd(IF num.kind = "observed"
                 THEN LAdd(num_pot_energy, num_log_det_sqrt_gram)
                 ELSE num_pot_energy,
                 Plain(kin_energy_of(num.mom)))
====
